---- MODULE Spec2Model ----
(***************************************************************************)
(* A model of the MIPS peephole optimizer (src/src/optimizer/peephole.py)  *)
(* and of the line parser (src/src/parser/mips_parser.py).                 *)
(*                                                                         *)
(* Python values are modelled as follows.                                  *)
(*   - a list is a sequence; Python index k is TLA+ index k + 1;           *)
(*   - an Optional value is a sequence of length 0 (None) or 1;            *)
(*   - a text is a sequence of tokens (optimizer) or characters (parser);  *)
(*   - an IndexError leaves the call in pc = "raised".                     *)
(***************************************************************************)
EXTENDS Integers, Sequences, FiniteSets, TLC

VARIABLES
    instructions,   \* optimize: the argument of the running call
    i,              \* optimize: the cursor (0-based, as in the code)
    optimized,      \* optimize: the result list under construction
    pc,             \* optimize: "loop", "done" (returned) or "raised"
    steps,          \* history of the loop iterations of the running call
    pass,           \* number of optimize calls made so far
    p_instructions, \* MIPSParser: the contents of the list self.instructions
    p_labels,       \* MIPSParser: the dict self.labels
    ppc,            \* parse_text: "new" (never called), "parsing", "returned"
    text,           \* the lines the running parse_text call has consumed
    marks,          \* len(self.instructions) before each consumed line
    held            \* a return value of parse_text the caller kept

optVars == <<instructions, i, optimized, pc, steps, pass>>

parVars == <<p_instructions, p_labels, ppc, text, marks, held>>

vars == <<instructions, i, optimized, pc, steps, pass,
          p_instructions, p_labels, ppc, text, marks, held>>

(***************************************************************************)
(* Bounds.                                                                 *)
(***************************************************************************)
MaxLen == 3

MaxPasses == 2

MaxLines == 2

(***************************************************************************)
(* The IR: Instruction and Label (mips_parser.py, the two dataclasses).    *)
(***************************************************************************)
None == <<>>

Some(v) == <<v>>

Instruction(opcode, args, comment, original_text) ==
    [kind |-> "Instruction", opcode |-> opcode, args |-> args,
     comment |-> comment, original_text |-> original_text]

Label(name, instruction) ==
    [kind |-> "Label", name |-> name, instruction |-> instruction]

isinstance(e, cls) == e.kind = cls

\* str() of an Optional text inside an f-string: None prints as "None".
Format(t) == IF t = None THEN <<"None">> ELSE t[1]

(***************************************************************************)
(* The matchers and transformers.  A matcher returns its match length, 0   *)
(* for no match; IndexError stands for the exception an operand access     *)
(* beyond the operand list raises.                                         *)
(***************************************************************************)
IndexError == -1

\* Mutant: the third operand is not compared with $zero.
_match_add_zero_AnyThird(instrs) ==
    IF Len(instrs) < 1 THEN 0
    ELSE IF ~isinstance(instrs[1], "Instruction") THEN 0
    ELSE LET instr == instrs[1] IN
         IF instr.opcode = "add" /\ Len(instr.args) = 3 THEN 1 ELSE 0

_match_add_zero(instrs) ==
    IF Len(instrs) < 1 THEN 0
    ELSE IF ~isinstance(instrs[1], "Instruction") THEN 0
    ELSE LET instr == instrs[1] IN
         IF /\ instr.opcode = "add"
            /\ Len(instr.args) = 3
            /\ instr.args[3] = "$zero"
         THEN 1 ELSE 0

\* Mutant: the replacement keeps the add opcode and the zero operand.
_transform_add_zero_StillAdd(instrs) ==
    LET instr == instrs[1] IN
    << Instruction("add", <<instr.args[1], instr.args[2], "$zero">>,
                   Some(<<"Optimized from: ">> \o Format(instr.original_text)),
                   None) >>

_transform_add_zero(instrs) ==
    LET instr == instrs[1] IN
    << Instruction("move", <<instr.args[1], instr.args[2]>>,
                   Some(<<"Optimized from: ">> \o Format(instr.original_text)),
                   None) >>

_match_redundant_move(instrs) ==
    IF Len(instrs) < 2 THEN 0
    ELSE IF \/ ~isinstance(instrs[1], "Instruction")
            \/ ~isinstance(instrs[2], "Instruction") THEN 0
    ELSE LET first  == instrs[1]
             second == instrs[2] IN
         IF /\ first.opcode = "move"
            /\ second.opcode = "add"
            /\ Len(second.args) = 3
            /\ second.args[3] = "$zero"
         THEN \* first.args[0] is read without a length check
              IF Len(first.args) < 1 THEN IndexError
              ELSE IF first.args[1] = second.args[2] THEN 2 ELSE 0
         ELSE 0

\* instructions[1].args[0] and instructions[0].args[1] are read unguarded.
_transform_redundant_move_raises(instrs) ==
    Len(instrs[2].args) < 1 \/ Len(instrs[1].args) < 2

\* Mutant: the source is taken from the move's destination operand.
_transform_redundant_move_WrongSource(instrs) ==
    << Instruction("move", <<instrs[2].args[1], instrs[1].args[1]>>,
                   Some(<<"Optimized from: ">> \o Format(instrs[1].original_text)
                        \o <<" and ">> \o Format(instrs[2].original_text)),
                   None) >>

_transform_redundant_move(instrs) ==
    << Instruction("move", <<instrs[2].args[1], instrs[1].args[2]>>,
                   Some(<<"Optimized from: ">> \o Format(instrs[1].original_text)
                        \o <<" and ">> \o Format(instrs[2].original_text)),
                   None) >>

\* Mutant: the memory operands are not compared.
_match_redundant_load_store_AnyAddress(instrs) ==
    IF Len(instrs) < 2 THEN 0
    ELSE IF \/ ~isinstance(instrs[1], "Instruction")
            \/ ~isinstance(instrs[2], "Instruction") THEN 0
    ELSE LET store == instrs[1]
             load  == instrs[2] IN
         IF store.opcode = "sw" /\ load.opcode = "lw"
         THEN IF Len(store.args) < 2 THEN IndexError
              ELSE IF Len(load.args) < 2 THEN IndexError
              ELSE 2
         ELSE 0

_match_redundant_load_store(instrs) ==
    IF Len(instrs) < 2 THEN 0
    ELSE IF \/ ~isinstance(instrs[1], "Instruction")
            \/ ~isinstance(instrs[2], "Instruction") THEN 0
    ELSE LET store == instrs[1]
             load  == instrs[2] IN
         IF store.opcode = "sw" /\ load.opcode = "lw"
         THEN \* store.args[1], then load.args[1], are read without a length check
              IF Len(store.args) < 2 THEN IndexError
              ELSE IF Len(load.args) < 2 THEN IndexError
              ELSE IF store.args[2] = load.args[2] THEN 2 ELSE 0
         ELSE 0

_transform_redundant_load_store(instrs) ==
    LET store == instrs[1]
        load  == instrs[2] IN
    << store,
       Instruction("move", <<load.args[1], store.args[1]>>,
                   Some(<<"Optimized from: ">> \o Format(load.original_text)),
                   None) >>

(***************************************************************************)
(* self.patterns: the three (matcher, transformer) pairs in priority order.*)
(***************************************************************************)
NumPatterns == 3

match_fn(k, instrs) ==
    CASE k = 1 -> _match_add_zero(instrs)
      [] k = 2 -> _match_redundant_move(instrs)
      [] k = 3 -> _match_redundant_load_store(instrs)

transform_raises(k, instrs) ==
    k = 2 /\ _transform_redundant_move_raises(instrs)

transform_fn(k, instrs) ==
    CASE k = 1 -> _transform_add_zero(instrs)
      [] k = 2 -> _transform_redundant_move(instrs)
      [] k = 3 -> _transform_redundant_load_store(instrs)

\* The for loop over self.patterns at one cursor position: the first pattern
\* whose matcher returns a positive length (or raises), 0 when none does.
RECURSIVE try_patterns(_, _)
try_patterns(k, instrs) ==
    IF k > NumPatterns THEN [pattern |-> 0, match_length |-> 0]
    ELSE LET match_length == match_fn(k, instrs) IN
         IF match_length # 0
         THEN [pattern |-> k, match_length |-> match_length]
         ELSE try_patterns(k + 1, instrs)

\* Mutant: the cursor advances by the replacement's length.
advance_ByReplacement(cursor, match_length, transformed) ==
    cursor + Len(transformed)

\* i += match_length
advance(cursor, match_length, transformed) == cursor + match_length

\* Mutant: only Instructions are kept.
keep_original_InstructionsOnly(e) ==
    IF isinstance(e, "Instruction") THEN <<e>> ELSE <<>>

\* Mutant: an unmatched Instruction is rebuilt without its source text.
keep_original_Rebuilt(e) ==
    IF isinstance(e, "Instruction")
    THEN <<Instruction(e.opcode, e.args, e.comment, None)>>
    ELSE <<e>>

\* optimized.append(instructions[i])
keep_original(e) == <<e>>

(***************************************************************************)
(* One iteration of the while loop of optimize, on a call's local state.   *)
(***************************************************************************)
Slice(s, from, to) == SubSeq(s, from + 1, to)

loop_body(st) ==
    LET suffix == Slice(st.instructions, st.i, Len(st.instructions))
        m      == try_patterns(1, suffix)
    IN  IF m.match_length = IndexError
        THEN [st EXCEPT !.pc = "raised"]
        ELSE IF m.match_length > 0
        THEN LET window == Slice(st.instructions, st.i, st.i + m.match_length) IN
             IF transform_raises(m.pattern, window)
             THEN [st EXCEPT !.pc = "raised"]
             ELSE LET transformed == transform_fn(m.pattern, window) IN
                  [st EXCEPT
                     !.optimized = st.optimized \o transformed,
                     !.i = advance(st.i, m.match_length, transformed),
                     !.steps = Append(st.steps,
                                 [at |-> st.i, pattern |-> m.pattern,
                                  window |-> window,
                                  outAt |-> Len(st.optimized),
                                  out |-> Len(transformed)])]
        ELSE [st EXCEPT
                !.optimized = st.optimized \o keep_original(st.instructions[st.i + 1]),
                !.i = st.i + 1,
                !.steps = Append(st.steps,
                            [at |-> st.i, pattern |-> 0,
                             window |-> Slice(st.instructions, st.i, st.i + 1),
                             outAt |-> Len(st.optimized),
                             out |-> 1])]

\* The state of a call on entry: optimized = [], i = 0.
enter(instrs) ==
    [instructions |-> instrs, i |-> 0, optimized |-> <<>>, pc |-> "loop",
     steps |-> <<>>]

\* while i < len(instructions): ... ; return optimized
RECURSIVE run(_)
run(st) ==
    IF st.pc # "loop" THEN st
    ELSE IF st.i < Len(st.instructions) THEN run(loop_body(st))
    ELSE [st EXCEPT !.pc = "done"]

\* optimize as a function: the final state of the call.
optimize(instrs) == run(enter(instrs))

(***************************************************************************)
(* Inputs: hand-built IR over a small vocabulary, with well-formed and     *)
(* short operand lists.                                                    *)
(***************************************************************************)
Regs == {"$t0", "$t1"}

Mems == {"0($sp)", "4($sp)"}

Source(opcode, args) == Instruction(opcode, args, None, Some(<<opcode>> \o args))

Elements ==
    {Source("add", <<d, x, "$zero">>) : d \in Regs, x \in Regs}
    \cup {Source("add", <<"$t0", "$t1", "$t1">>), Source("add", <<"$t0", "$t1">>),
          Source("add", <<>>)}
    \cup {Source("move", <<x, s>>) : x \in Regs, s \in Regs}
    \cup {Source("move", <<>>), Source("move", <<"$t1">>)}
    \cup {Source("sw", <<"$t0", a>>) : a \in Mems}
    \cup {Source("sw", <<"$t0">>)}
    \cup {Source("lw", <<"$t1", b>>) : b \in Mems}
    \cup {Source("lw", <<"$t1">>)}
    \cup {Source("nop", <<>>)}
    \cup {Label(n, None) : n \in {"L", "M"}}

Inputs == UNION {[1..n -> Elements] : n \in 0..MaxLen}

(***************************************************************************)
(* The state machine: a caller applies optimize to an input and may apply  *)
(* it again to the returned list.                                          *)
(***************************************************************************)
local == [instructions |-> instructions, i |-> i, optimized |-> optimized,
          pc |-> pc, steps |-> steps]

Becomes(st) ==
    /\ instructions' = st.instructions
    /\ i' = st.i
    /\ optimized' = st.optimized
    /\ pc' = st.pc
    /\ steps' = st.steps

AtCursor == try_patterns(1, Slice(instructions, i, Len(instructions)))

InLoop == pc = "loop" /\ i < Len(instructions)

AddZero ==
    /\ InLoop
    /\ AtCursor.pattern = 1
    /\ Becomes(loop_body(local))
    /\ UNCHANGED pass
    /\ UNCHANGED parVars

RedundantMove ==
    /\ InLoop
    /\ AtCursor.pattern = 2
    /\ loop_body(local).pc = "loop"
    /\ Becomes(loop_body(local))
    /\ UNCHANGED pass
    /\ UNCHANGED parVars

RedundantLoadStore ==
    /\ InLoop
    /\ AtCursor.pattern = 3
    /\ loop_body(local).pc = "loop"
    /\ Becomes(loop_body(local))
    /\ UNCHANGED pass
    /\ UNCHANGED parVars

KeepOriginal ==
    /\ InLoop
    /\ AtCursor.pattern = 0
    /\ Becomes(loop_body(local))
    /\ UNCHANGED pass
    /\ UNCHANGED parVars

Raise ==
    /\ InLoop
    /\ loop_body(local).pc = "raised"
    /\ Becomes(loop_body(local))
    /\ UNCHANGED pass
    /\ UNCHANGED parVars

Return ==
    /\ pc = "loop"
    /\ ~(i < Len(instructions))
    /\ pc' = "done"
    /\ UNCHANGED <<instructions, i, optimized, steps, pass>>
    /\ UNCHANGED parVars

OptimizeAgain ==
    /\ pc = "done"
    /\ pass < MaxPasses
    /\ Becomes(enter(optimized))
    /\ pass' = pass + 1
    /\ UNCHANGED parVars

\* MIPSParser.__init__: an empty list and an empty dict
ParserInit ==
    /\ p_instructions = <<>>
    /\ p_labels = <<>>
    /\ ppc = "new"
    /\ text = <<>>
    /\ marks = <<>>
    /\ held = None

Init ==
    /\ instructions \in Inputs
    /\ i = 0
    /\ optimized = <<>>
    /\ pc = "loop"
    /\ steps = <<>>
    /\ pass = 1
    /\ ParserInit

Next ==
    \/ AddZero
    \/ RedundantMove
    \/ RedundantLoadStore
    \/ KeepOriginal
    \/ Raise
    \/ Return
    \/ OptimizeAgain

Spec == Init /\ [][Next]_vars

(***************************************************************************)
(* The parser.  A line is a sequence of characters.                        *)
(***************************************************************************)
LowerSeq == <<"a", "b", "c", "d", "e", "f", "g", "h", "i", "j", "k", "l", "m", "n", "o", "p", "q", "r", "s", "t", "u", "v", "w", "x", "y", "z">>

UpperSeq == <<"A", "B", "C", "D", "E", "F", "G", "H", "I", "J", "K", "L", "M", "N", "O", "P", "Q", "R", "S", "T", "U", "V", "W", "X", "Y", "Z">>

Range(f) == {f[k] : k \in DOMAIN f}

IsLetter(c) == c \in Range(LowerSeq) \cup Range(UpperSeq)

IsDigit(c) == c \in {"0", "1", "2", "3", "4", "5", "6", "7", "8", "9"}

\* \s and the characters str.strip() removes
IsSpace(c) == c \in {" ", "\t"}

\* str.lower() on one character
lower_char(c) ==
    IF c \in Range(UpperSeq)
    THEN LowerSeq[CHOOSE k \in DOMAIN UpperSeq : UpperSeq[k] = c]
    ELSE c

lower(s) == [k \in 1..Len(s) |-> lower_char(s[k])]

RECURSIVE lstrip(_)
lstrip(s) == IF s # <<>> /\ IsSpace(Head(s)) THEN lstrip(Tail(s)) ELSE s

RECURSIVE rstrip(_)
rstrip(s) ==
    IF s # <<>> /\ IsSpace(s[Len(s)]) THEN rstrip(SubSeq(s, 1, Len(s) - 1)) ELSE s

strip(s) == rstrip(lstrip(s))

\* the regex character classes [a-zA-Z], [a-zA-Z0-9_] and [^#]
InClass(c, cls) ==
    CASE cls = "[a-zA-Z]"     -> IsLetter(c)
      [] cls = "[a-zA-Z0-9_]" -> IsLetter(c) \/ IsDigit(c) \/ c = "_"
      [] cls = "[^#]"         -> c # "#"

\* the length of the longest prefix of s whose characters are all in cls
RECURSIVE span(_, _)
span(s, cls) ==
    IF s # <<>> /\ InClass(Head(s), cls) THEN 1 + span(Tail(s), cls) ELSE 0

\* str.split(','): the pieces between the commas, empty ones included
RECURSIVE split(_, _)
split(s, piece) ==
    IF s = <<>> THEN <<piece>>
    ELSE IF Head(s) = "," THEN <<piece>> \o split(Tail(s), <<>>)
    ELSE split(Tail(s), Append(piece, Head(s)))

\* comment_pattern  ^\s*#.*$
comment_pattern_match(line) ==
    LET s == lstrip(line) IN s # <<>> /\ Head(s) = "#"

\* label_pattern  ^\s*([a-zA-Z_][a-zA-Z0-9_]*):\s*(.*)$   -> None or (name, rest)
label_pattern_match(line) ==
    LET s == lstrip(line)
        n == IF s # <<>> /\ (IsLetter(Head(s)) \/ Head(s) = "_")
             THEN span(s, "[a-zA-Z0-9_]")
             ELSE 0
    IN  IF n >= 1 /\ n < Len(s) /\ s[n + 1] = ":"
        THEN Some([label_name |-> SubSeq(s, 1, n),
                   rest |-> lstrip(SubSeq(s, n + 2, Len(s)))])
        ELSE None

\* instruction_pattern  ^\s*([a-zA-Z]+)\s*([^#]*?)(?:\s*#\s*(.*))?$
\*   -> None or (opcode, args_str, comment); comment None when the group is absent
instruction_pattern_match(line) ==
    LET s == lstrip(line)
        n == span(s, "[a-zA-Z]")
        r == lstrip(SubSeq(s, n + 1, Len(s)))
        h == span(r, "[^#]")
    IN  IF n = 0 THEN None
        ELSE IF h = Len(r)
        THEN Some([opcode |-> SubSeq(s, 1, n), args_str |-> r, comment |-> None])
        ELSE Some([opcode |-> SubSeq(s, 1, n),
                   args_str |-> rstrip(SubSeq(r, 1, h)),
                   comment |-> Some(lstrip(SubSeq(r, h + 2, Len(r))))])

\* _parse_instruction: None or the Instruction
_parse_instruction(line) ==
    LET match == instruction_pattern_match(line) IN
    IF match = None THEN None
    ELSE LET g == match[1]
             pieces == split(g.args_str, <<>>)
             args == SelectSeq([k \in 1..Len(pieces) |-> strip(pieces[k])],
                               LAMBDA a : a # <<>>)
         IN  Some(Instruction(lower(strip(g.opcode)), args,
                              IF g.comment # None /\ g.comment[1] # <<>>
                              THEN Some(strip(g.comment[1])) ELSE None,
                              Some(line)))

\* Mutant: a name already in the table keeps its first Label.
set_label_KeepFirst(labels, label_name, label) ==
    [n \in DOMAIN labels \cup {label_name} |->
        IF n \in DOMAIN labels THEN labels[n] ELSE label]

\* self.labels[label_name] = label
set_label(labels, label_name, label) ==
    [n \in DOMAIN labels \cup {label_name} |->
        IF n = label_name THEN label ELSE labels[n]]

\* the Label of a label line: label.instruction = instr when rest parses
make_label(label_name, rest) ==
    IF strip(rest) # <<>> /\ _parse_instruction(rest) # None
    THEN Label(label_name, _parse_instruction(rest))
    ELSE Label(label_name, None)

\* the body of the for loop of parse_text on one line of the text
parse_line(st, raw) ==
    LET line == strip(raw) IN
    IF line = <<>> \/ comment_pattern_match(line) THEN st
    ELSE LET label_match == label_pattern_match(line) IN
         IF label_match # None
         THEN LET label == make_label(label_match[1].label_name, label_match[1].rest)
              IN  [labels |-> set_label(st.labels, label.name, label),
                   instructions |-> st.instructions \o <<label>> \o label.instruction]
         ELSE [st EXCEPT !.instructions = st.instructions \o _parse_instruction(line)]

\* get_label: self.labels.get(name)
get_label(name) == IF name \in DOMAIN p_labels THEN Some(p_labels[name]) ELSE None

\* what a reference to a list currently shows; parse_text returns the list
\* object self.instructions itself
Deref(ref) == CASE ref = "self.instructions" -> p_instructions

(***************************************************************************)
(* The lines a text is made of.                                            *)
(***************************************************************************)
Lines ==
    {<<" ", " ">>,   \* '  '
     <<"#", " ", "c">>,   \* '# c'
     <<"L", ":">>,   \* 'L:'
     <<"L", ":", " ", "J", " ", "x">>,   \* 'L: J x'
     <<"M", ":", " ", "1">>,   \* 'M: 1'
     <<"L", ":", " ", "#", " ", "c">>,   \* 'L: # c'
     <<"j", " ", "x", ",", " ", "y", " ", "#", "c">>,   \* 'j x, y #c'
     <<"1">>,   \* '1'
     <<" ", "M", ":", "j">>,   \* ' M:j'
     <<"_", "a", "1", ":", "A", "d", "d", " ", "$", "t", ",", " ", "$", "s", " ", "#", " ", "c">>,   \* '_a1:Add $t, $s # c'
     <<"a", ":", "b", ":">>,   \* 'a:b:'
     <<"9", ":", " ", "j">>,   \* '9: j'
     <<"L", " ", ":", " ", "j">> }   \* 'L : j'

(***************************************************************************)
(* The parser's state machine: one instance, any number of parse_text      *)
(* calls (SpecParser); in SpecReuse the caller also keeps the list one of  *)
(* the calls returned.                                                     *)
(***************************************************************************)
\* self.instructions.clear(); self.labels.clear()
BeginParse ==
    /\ ppc \in {"new", "returned"}
    /\ p_instructions' = <<>>
    /\ p_labels' = <<>>
    /\ ppc' = "parsing"
    /\ text' = <<>>
    /\ marks' = <<>>
    /\ UNCHANGED held
    /\ UNCHANGED optVars

ParseLine ==
    /\ ppc = "parsing"
    /\ Len(text) < MaxLines
    /\ \E raw \in Lines :
          LET st == parse_line([labels |-> p_labels, instructions |-> p_instructions],
                               raw)
          IN  /\ p_instructions' = st.instructions
              /\ p_labels' = st.labels
              /\ text' = Append(text, raw)
              /\ marks' = Append(marks, Len(p_instructions))
    /\ UNCHANGED <<ppc, held>>
    /\ UNCHANGED optVars

\* return self.instructions
ReturnList ==
    /\ ppc = "parsing"
    /\ ppc' = "returned"
    /\ UNCHANGED <<p_instructions, p_labels, text, marks, held>>
    /\ UNCHANGED optVars

\* the caller keeps the returned reference; seen records what it showed then
Keep ==
    /\ ppc = "returned"
    /\ held = None
    /\ held' = Some([ref |-> "self.instructions", seen |-> p_instructions])
    /\ UNCHANGED <<p_instructions, p_labels, ppc, text, marks>>
    /\ UNCHANGED optVars

IdleOptimizer ==
    /\ instructions = <<>>
    /\ i = 0
    /\ optimized = <<>>
    /\ pc = "done"
    /\ steps = <<>>
    /\ pass = 1

InitParser == IdleOptimizer /\ ParserInit

NextParser ==
    \/ BeginParse
    \/ ParseLine
    \/ ReturnList

SpecParser == InitParser /\ [][NextParser]_vars

NextReuse ==
    \/ BeginParse
    \/ ParseLine
    \/ ReturnList
    \/ Keep

SpecReuse == InitParser /\ [][NextReuse]_vars

(***************************************************************************)
(* Shapes the claims speak about.                                          *)
(***************************************************************************)
IsOp(e, opcode) == isinstance(e, "Instruction") /\ e.opcode = opcode

AddZeroShape(e) == IsOp(e, "add") /\ Len(e.args) = 3 /\ e.args[3] = "$zero"

\* a move with a destination and a source, then an add-zero reading the destination
MoveThenAddZero(m, a) ==
    /\ IsOp(m, "move") /\ Len(m.args) >= 2
    /\ AddZeroShape(a) /\ a.args[2] = m.args[1]

IsMove(e, dst, src) == IsOp(e, "move") /\ e.args = <<dst, src>>

StoreThenLoad(s, l) ==
    /\ IsOp(s, "sw") /\ Len(s.args) = 2
    /\ IsOp(l, "lw") /\ Len(l.args) = 2

LabelsOf(s) == SelectSeq(s, LAMBDA e : isinstance(e, "Label"))

\* the output elements one loop iteration appended
Emitted(st) == SubSeq(optimized, st.outAt + 1, st.outAt + st.out)

(***************************************************************************)
(* C1: optimize never raises, whatever the operand counts of its input.    *)
(***************************************************************************)
C1_NeverRaises == pc # "raised"

(***************************************************************************)
(* C2: wherever the cursor reaches a move x,s immediately followed by an   *)
(* add d,x,$zero, the two are replaced by the single move d,s; applied to  *)
(* exactly these two elements optimize returns exactly that one element.   *)
(***************************************************************************)
C2_RedundantMove ==
    /\ \A k \in 1..Len(steps) :
          LET p == steps[k].at IN
          (p + 2 <= Len(instructions)
             /\ MoveThenAddZero(instructions[p + 1], instructions[p + 2]))
          => /\ steps[k].pattern = 2
             /\ steps[k].window = <<instructions[p + 1], instructions[p + 2]>>
             /\ steps[k].out = 1
             /\ IsMove(optimized[steps[k].outAt + 1],
                       instructions[p + 2].args[1], instructions[p + 1].args[2])
    /\ (Len(instructions) = 2 /\ MoveThenAddZero(instructions[1], instructions[2]))
       => /\ pc # "raised"
          /\ pc = "done" =>
               /\ Len(optimized) = 1
               /\ IsMove(optimized[1], instructions[2].args[1], instructions[1].args[2])

C2_Witness ==
    /\ pc = "done"
    /\ \E k \in 1..Len(steps) :
          /\ steps[k].pattern = 2
          /\ steps[k].at > 0
          /\ MoveThenAddZero(instructions[steps[k].at + 1], instructions[steps[k].at + 2])

(***************************************************************************)
(* C3: applied to [sw r,a ; lw l,b], optimize returns the sw unchanged     *)
(* followed by move l,r when a and b are the same token, and the two input *)
(* elements unchanged when they differ; two elements in both cases.        *)
(***************************************************************************)
C3_StoreLoad ==
    (Len(instructions) = 2 /\ StoreThenLoad(instructions[1], instructions[2]))
    => /\ pc # "raised"
       /\ pc = "done" =>
            /\ Len(optimized) = 2
            /\ IF instructions[1].args[2] = instructions[2].args[2]
               THEN /\ optimized[1] = instructions[1]
                    /\ IsMove(optimized[2], instructions[2].args[1],
                              instructions[1].args[1])
               ELSE optimized = instructions

C3_Witness ==
    /\ pc = "done"
    /\ Len(instructions) = 2
    /\ StoreThenLoad(instructions[1], instructions[2])
    /\ instructions[1].args[2] = instructions[2].args[2]
    /\ Len(optimized) = 2
    /\ IsOp(optimized[2], "move")

(***************************************************************************)
(* C4: for a single add I, optimize([I]) is [move I.args[0], I.args[1]]    *)
(* exactly when I has 3 operands and the third is $zero; any other add is  *)
(* returned unchanged.                                                     *)
(***************************************************************************)
C4_AddZero ==
    (Len(instructions) = 1 /\ IsOp(instructions[1], "add"))
    => /\ pc # "raised"
       /\ pc = "done" =>
            LET I == instructions[1]
                rewritten == /\ Len(optimized) = 1
                             /\ Len(I.args) >= 2
                             /\ IsMove(optimized[1], I.args[1], I.args[2])
            IN  /\ rewritten <=> AddZeroShape(I)
                /\ ~AddZeroShape(I) => optimized = instructions

C4_Witness ==
    /\ pc = "done"
    /\ Len(instructions) = 1
    /\ AddZeroShape(instructions[1])
    /\ Len(optimized) = 1
    /\ IsOp(optimized[1], "move")

(***************************************************************************)
(* C5: no matched window contains a Label; the Labels consumed so far are  *)
(* in the output once each, unchanged and in input order; a move and an    *)
(* add-zero separated by a Label are not merged.                           *)
(***************************************************************************)
C5_LabelBoundary ==
    /\ \A k \in 1..Len(steps) :
          steps[k].pattern # 0 =>
             \A j \in 1..Len(steps[k].window) :
                isinstance(steps[k].window[j], "Instruction")
    /\ LabelsOf(optimized) = LabelsOf(SubSeq(instructions, 1, i))
    /\ (/\ pc = "done"
        /\ Len(instructions) = 3
        /\ isinstance(instructions[2], "Label")
        /\ MoveThenAddZero(instructions[1], instructions[3]))
       => /\ Len(optimized) = 3
          /\ optimized[1] = instructions[1]
          /\ optimized[2] = instructions[2]
          /\ IsMove(optimized[3], instructions[3].args[1], instructions[3].args[2])

C5_Witness ==
    /\ pc = "done"
    /\ Len(instructions) = 3
    /\ isinstance(instructions[2], "Label")
    /\ MoveThenAddZero(instructions[1], instructions[3])
    /\ Len(optimized) = 3

(***************************************************************************)
(* C6: an input element at which no pattern matches is copied to the       *)
(* output unchanged, in input order; an input without add, move, sw and lw *)
(* is returned element for element.                                        *)
(***************************************************************************)
C6_Unmatched ==
    /\ \A k \in 1..Len(steps) :
          steps[k].pattern = 0 =>
             /\ Emitted(steps[k]) = <<instructions[steps[k].at + 1]>>
             /\ \A j \in 1..Len(steps) :
                   j < k => /\ steps[j].at < steps[k].at
                            /\ steps[j].outAt + steps[j].out <= steps[k].outAt
    /\ (\A k \in 1..Len(instructions) :
           \A op \in {"add", "move", "sw", "lw"} : ~IsOp(instructions[k], op))
       => /\ pc # "raised"
          /\ pc = "done" => optimized = instructions

C6_Witness ==
    /\ pc = "done"
    /\ \E k \in 1..Len(steps) :
          /\ steps[k].pattern = 0
          /\ IsOp(instructions[steps[k].at + 1], "add")
          /\ steps[k].outAt < steps[k].at

(***************************************************************************)
(* C7 as stated: some input (one of the bounded inputs, or the argument of *)
(* the running call) has an optimized form that a second pass changes.     *)
(***************************************************************************)
C7_NotIdempotent ==
    \E s \in Inputs \cup {instructions} :
       LET once == optimize(s) IN
       /\ once.pc = "done"
       /\ optimize(once.optimized).optimized # once.optimized

(***************************************************************************)
(* C7 amended: with the three built-in patterns no output of a completed   *)
(* pass holds a match, so a second pass neither raises nor rewrites and    *)
(* returns its input.                                                      *)
(***************************************************************************)
C7_Idempotent ==
    pass >= 2 =>
       /\ pc # "raised"
       /\ \A k \in 1..Len(steps) : steps[k].pattern = 0
       /\ pc = "done" => optimized = instructions

C7_Witness ==
    /\ pass = 2
    /\ pc = "done"
    /\ Len(instructions) = 2
    /\ \A k \in 1..2 : /\ IsOp(instructions[k], "move")
                       /\ instructions[k].comment # None
    /\ instructions[2].args[2] = instructions[1].args[1]

(***************************************************************************)
(* C10: the pass consumes each input element once, left to right: every    *)
(* iteration starts where the previous match ended, is offered input       *)
(* elements only, and the output never outgrows the consumed input; so     *)
(* [move a,b ; add c,a,$zero ; add d,c,$zero] becomes [move c,b ; move d,c]*)
(***************************************************************************)
C10_SinglePass ==
    /\ \A k \in 1..Len(steps) :
          /\ steps[k].at = (IF k = 1 THEN 0
                            ELSE steps[k - 1].at + Len(steps[k - 1].window))
          /\ Len(steps[k].window) >= 1
          /\ steps[k].window
               = SubSeq(instructions, steps[k].at + 1,
                        steps[k].at + Len(steps[k].window))
    /\ i = (IF steps = <<>> THEN 0
            ELSE steps[Len(steps)].at + Len(steps[Len(steps)].window))
    /\ i <= Len(instructions)
    /\ Len(steps) <= i
    /\ Len(optimized) <= i
    /\ (/\ pc = "done"
        /\ Len(instructions) = 3
        /\ MoveThenAddZero(instructions[1], instructions[2])
        /\ AddZeroShape(instructions[3])
        /\ instructions[3].args[2] = instructions[2].args[1])
       => /\ Len(optimized) = 2
          /\ IsMove(optimized[1], instructions[2].args[1], instructions[1].args[2])
          /\ IsMove(optimized[2], instructions[3].args[1], instructions[2].args[1])

C10_Witness ==
    /\ pc = "done"
    /\ Len(instructions) = 3
    /\ MoveThenAddZero(instructions[1], instructions[2])
    /\ AddZeroShape(instructions[3])
    /\ instructions[3].args[2] = instructions[2].args[1]
    /\ Len(optimized) = 2

(***************************************************************************)
(* C8: the list an earlier parse_text call returned still holds what it    *)
(* held when it was returned, after later calls on the same instance.      *)
(***************************************************************************)
C8_EarlierResultKept ==
    (held # None /\ ppc = "returned") => Deref(held[1].ref) = held[1].seen

(***************************************************************************)
(* C9: a line `name: rest` puts Label(name) at the line's place in the     *)
(* sequence; when rest is a parseable instruction that Instruction follows *)
(* immediately and is the Label's instruction, otherwise the Label stands  *)
(* alone with no instruction; after the call get_label(name) is the Label  *)
(* of the last declaration of name, and earlier Labels are still in place. *)
(***************************************************************************)
IsIdentifier(s) ==
    /\ s # <<>>
    /\ IsLetter(s[1]) \/ s[1] = "_"
    /\ \A k \in 1..Len(s) : IsLetter(s[k]) \/ IsDigit(s[k]) \/ s[k] = "_"

\* the lengths n for which the trimmed line l reads  identifier ":" ...
NameEnds(l) == {n \in 1..(Len(l) - 1) : IsIdentifier(SubSeq(l, 1, n)) /\ l[n + 1] = ":"}

IsLabelLine(raw) == NameEnds(strip(raw)) # {}

NameOf(raw) ==
    LET l == strip(raw) IN SubSeq(l, 1, CHOOSE n \in NameEnds(l) : TRUE)

RestOf(raw) ==
    LET l == strip(raw) IN strip(SubSeq(l, (CHOOSE n \in NameEnds(l) : TRUE) + 2, Len(l)))

Parseable(rest) == rest # <<>> /\ IsLetter(rest[1])

\* where the elements of consumed line k end in the sequence
EndOf(k) == IF k < Len(text) THEN marks[k + 1] ELSE Len(p_instructions)

Declarations(name) ==
    {k \in 1..Len(text) : IsLabelLine(text[k]) /\ NameOf(text[k]) = name}

LastDeclaration(name) ==
    CHOOSE k \in Declarations(name) : \A j \in Declarations(name) : j <= k

C9_LabelLines ==
    ppc \in {"parsing", "returned"} =>
       \A k \in 1..Len(text) :
          IsLabelLine(text[k]) =>
             LET at == marks[k] + 1 IN
             /\ EndOf(k) >= at
             /\ isinstance(p_instructions[at], "Label")
             /\ p_instructions[at].name = NameOf(text[k])
             /\ IF Parseable(RestOf(text[k]))
                THEN /\ EndOf(k) = at + 1
                     /\ isinstance(p_instructions[at + 1], "Instruction")
                     /\ p_instructions[at + 1].original_text = Some(RestOf(text[k]))
                     /\ p_instructions[at].instruction = Some(p_instructions[at + 1])
                ELSE /\ EndOf(k) = at
                     /\ p_instructions[at].instruction = None
             /\ ppc = "returned" =>
                   get_label(NameOf(text[k]))
                     = Some(p_instructions[marks[LastDeclaration(NameOf(text[k]))] + 1])

C9_Witness ==
    /\ ppc = "returned"
    /\ Len(text) = 2
    /\ IsLabelLine(text[1]) /\ IsLabelLine(text[2])
    /\ NameOf(text[1]) = NameOf(text[2])
    /\ ~Parseable(RestOf(text[1])) /\ Parseable(RestOf(text[2]))
    /\ Len(p_instructions) = 3
    /\ p_instructions[1].instruction = None
    /\ get_label(NameOf(text[1])) = Some(p_instructions[2])

====
